---------------------------- MODULE Spec2Model ----------------------------
(***************************************************************************)
(* Model of the Heidenhain post processor                                  *)
(*   src/src/Mod/CAM/Path/Post/scripts/heidenhain_post.py                  *)
(*   src/src/Mod/CAM/Path/Post/scripts/refactored_heidenhain_post.py       *)
(*                                                                         *)
(* Text is modelled as sequences of one-character strings, a gcode line    *)
(* as a record holding its kind and its words.  Numbers are integers:      *)
(*   - an axis value counts units of 10^-AXIS_PRECISION mm,                *)
(*   - a feed value counts units of 1/3 mm/s (= 20 mm/min), the unit in    *)
(*     which FMAX_SPEED / 60 (8000 mm/min in mm/s) is a whole number,      *)
(*   - a spindle speed counts units of 10^-SPINDLE_DECIMALS rpm.           *)
(***************************************************************************)
EXTENDS Integers, Sequences, FiniteSets, TLC

VARIABLES
    values,              \* the Values dictionary (settings and running state)
    sections,            \* number of sections process_postables goes through
    nexport,             \* export calls made so far
    objectslist,         \* export's argument
    current_job,         \* findParentJob(objectslist[0])
    gcode,               \* the list of lines export is building
    pc,                  \* where export stands: idle, objects, path, done
    result,              \* how the last export call ended
    nobj,                \* objects of objectslist the loop has gone through
    coolant_mode,        \* the refactored export's local coolant_mode
    ncmd,                \* commands of the current path processed so far
    command,             \* the command processed last, as output_* left it
    current_parameters,  \* parse_a_path's local record of tracked parameters
    fmt_arg,             \* the number handed to a format_for_* call
    fmt_fn,              \* which format_for_* function was called ("" before)
    fmt_ret              \* its result

vars == << values, sections, nexport, objectslist, current_job, gcode, pc,
           result, nobj, coolant_mode, ncmd, command, current_parameters,
           fmt_arg, fmt_fn, fmt_ret >>

----------------------------------------------------------------------------
(* Bounds *)

MaxPrec == 2     \* precisions 0..MaxPrec
MaxMag == 110    \* magnitudes 0..MaxMag (in units of 10^-precision)
MaxCmds == 3     \* commands of one path object
MaxObjs == 2     \* objects of one objectslist
MaxOps == 2      \* operations of one objectslist, where only coolant is followed
MaxExports == 2  \* sections of one process_postables

(* Program constants *)

UNLIKELY == 123456789      \* initial value of every tracked number
FMAX_SPEED_DEFAULT == 8000 \* values["FMAX_SPEED"], mm/min

----------------------------------------------------------------------------
(* Text helpers *)

DigitChars == << "0", "1", "2", "3", "4", "5", "6", "7", "8", "9" >>

Abs(n) == IF n < 0 THEN -n ELSE n

RECURSIVE Pow10(_)
Pow10(p) == IF p = 0 THEN 1 ELSE 10 * Pow10(p - 1)

RECURSIVE Digits(_)
Digits(n) ==
    IF n < 10 THEN << DigitChars[n + 1] >>
    ELSE Digits(n \div 10) \o << DigitChars[(n % 10) + 1] >>

RECURSIVE Pad(_, _)
Pad(n, w) ==
    IF w = 0 THEN << >>
    ELSE Pad(n \div 10, w - 1) \o << DigitChars[(n % 10) + 1] >>

(* Python's format(x, '+.<prec>f') (plus = TRUE) and format(x, '.<prec>f') *)
(* for the number of sign neg and magnitude mag * 10^-prec.               *)
FixedStr(neg, mag, prec, plus) ==
    (IF neg THEN << "-" >> ELSE IF plus THEN << "+" >> ELSE << >>)
    \o Digits(mag \div Pow10(prec))
    \o (IF prec > 0 THEN << "." >> \o Pad(mag % Pow10(prec), prec) ELSE << >>)

Contains(s, ch) == \E i \in 1..Len(s) : s[i] = ch

(* str.rstrip(ch) for a single character ch *)
RECURSIVE RStrip(_, _)
RStrip(s, ch) ==
    IF s # << >> /\ s[Len(s)] = ch THEN RStrip(SubSeq(s, 1, Len(s) - 1), ch)
    ELSE s

(* str.replace(a, b) for single characters *)
Replace(s, a, b) == [i \in 1..Len(s) |-> IF s[i] = a THEN b ELSE s[i]]

----------------------------------------------------------------------------
(* Number formatting *)

(* A number as format() sees it: its sign and its magnitude, the latter in  *)
(* units of 10^-precision.  Python prints a negative zero as "-0.000".      *)
Quantity(n) == [neg |-> n < 0, mag |-> Abs(n)]

format_parameter_unguarded(values_, value) ==
    LET v1 == IF values_.NORMALIZE_PARAMETERS
              THEN RStrip(RStrip(value, "0"), ".") ELSE value
    IN  IF values_.DECIMAL_COMMAS THEN Replace(v1, ".", ",") ELSE v1

format_parameter_points(values_, value) ==
    IF values_.NORMALIZE_PARAMETERS /\ Contains(value, ".")
    THEN RStrip(RStrip(value, "0"), ".") ELSE value

format_parameter(values_, value) ==
    LET v1 == IF values_.NORMALIZE_PARAMETERS /\ Contains(value, ".")
              THEN RStrip(RStrip(value, "0"), ".") ELSE value
    IN  IF values_.DECIMAL_COMMAS THEN Replace(v1, ".", ",") ELSE v1

format_for_axis(values_, number) ==
    format_parameter(values_,
        FixedStr(number.neg, number.mag, values_.AXIS_PRECISION, TRUE))

format_for_feed(values_, number) ==
    format_parameter(values_,
        FixedStr(number.neg, number.mag, values_.FEED_PRECISION, FALSE))

format_for_spindle(values_, number) ==
    format_parameter(values_,
        FixedStr(number.neg, number.mag, values_.SPINDLE_DECIMALS, FALSE))

----------------------------------------------------------------------------
(* Settings *)

Heidenhain == "heidenhain_post"
Refactored == "refactored_heidenhain_post"

(* The Values dictionary after init_values: the settings both scripts read, *)
(* those of the parent class at their usual values, with no text blocks.    *)
init_values(name) ==
    [ POSTPROCESSOR_FILE_NAME |-> name,
      OUTPUT_HEADER |-> TRUE,
      OUTPUT_COMMENTS |-> TRUE,
      OUTPUT_BCNC |-> FALSE,
      OUTPUT_PATH_LABELS |-> FALSE,
      OUTPUT_MACHINE_NAME |-> FALSE,
      OUTPUT_BLANK_LINES |-> TRUE,
      OUTPUT_TOOL_CHANGE |-> TRUE,
      STOP_SPINDLE_FOR_TOOL_CHANGE |-> TRUE,
      SHOW_OPERATION_LABELS |-> TRUE,
      SHOW_MACHINE_UNITS |-> TRUE,
      LIST_TOOLS_IN_PREAMBLE |-> TRUE,
      OUTPUT_LINE_NUMBERS |-> TRUE,
      LINE_NUMBER_ON_COMMENTS |-> TRUE,
      line_number |-> IF name = Heidenhain THEN 1 ELSE 0,
      LINE_INCREMENT |-> 1,
      PGM_UPPERCASE |-> TRUE,
      SUPPORT_CYLINDER_STOCK |-> FALSE,
      DECIMAL_COMMAS |-> TRUE,
      NORMALIZE_PARAMETERS |-> TRUE,
      ENABLE_COOLANT |-> TRUE,
      SUPPORT_FLOOD_COOLANT |-> TRUE,
      SUPPORT_MIST_COOLANT |-> FALSE,
      USE_FMAX |-> TRUE,
      FMAX_SPEED |-> FMAX_SPEED_DEFAULT,
      spindle_state |-> "None",
      spindle_dir |-> "None",
      coolant_mode |-> "None",
      MOTION_MODE |-> "G90",
      UNITS |-> "G21",
      UNIT_FORMAT |-> "mm",
      AXIS_PRECISION |-> 1,
      FEED_PRECISION |-> 1,
      SPINDLE_DECIMALS |-> 0,
      RETURN_TO |-> << >>,
      PREAMBLE |-> << >>,
      SAFETYBLOCK |-> << >>,
      TOOLRETURN |-> << >>,
      POSTAMBLE |-> << >>,
      PRE_OPERATION |-> << >>,
      POST_OPERATION |-> << >>,
      TOOL_CHANGE |-> << >> ]

PARAMETER_ORDER ==
    << "X", "Y", "Z", "A", "B", "C", "I", "J", "K", "R", "D", "F", "S", "M" >>

----------------------------------------------------------------------------
(* Lines.  num is << >> until add_linenumbers puts the line's number there. *)

create_comment(values_, comment_string) ==
    [num |-> << >>, kind |-> "comment", text |-> comment_string]

(* One line of a text block (PREAMBLE, SAFETYBLOCK, ...), as splitlines gives it *)
BlockLines(block, text) ==
    [i \in 1..Len(text) |-> [num |-> << >>, kind |-> block, text |-> text[i]]]

Line(kind) == [num |-> << >>, kind |-> kind]

IF_(cond, lines) == IF cond THEN lines ELSE << >>

----------------------------------------------------------------------------
(* The parts of export that only append lines *)

Upper(s) ==
    CASE s = "Job" -> "JOB"
      [] s = "New" -> "NEW"
      [] s = "mm" -> "MM"
      [] s = "in" -> "IN"
      [] OTHER -> s

pgm_job_name(values_, job) ==
    LET program_name == IF job.hasLabel THEN job.Label ELSE "New"
    IN  IF values_.PGM_UPPERCASE THEN Upper(program_name) ELSE program_name

job_name(values_, job) ==
    LET program_name == IF job.hasLabel THEN job.Label ELSE "NEW"
    IN  IF values_.PGM_UPPERCASE THEN Upper(program_name) ELSE program_name

pgm_unit(values_) ==
    IF values_.UNITS = "G21" THEN "MM"
    ELSE IF values_.UNITS = "G20" THEN "INCH" ELSE ""

PgmLine(values_, kind, job) ==
    IF values_.POSTPROCESSOR_FILE_NAME = Heidenhain
    THEN [num |-> << >>, kind |-> kind,
          name |-> pgm_job_name(values_, job), unit |-> pgm_unit(values_)]
    ELSE [num |-> << >>, kind |-> kind,
          name |-> job_name(values_, job), unit |-> Upper(values_.UNIT_FORMAT)]

output_pgm_begin(values_, job) == << PgmLine(values_, "BEGIN PGM", job) >>

output_pgm_end_as_labelled(values_, job) ==
    << [PgmLine(values_, "END PGM", job) EXCEPT
           !.name = IF job.hasLabel THEN job.Label ELSE "New"] >>

output_pgm_end(values_, job) == << PgmLine(values_, "END PGM", job) >>

(* The stock is a box, given by its offset and size, or a cylinder, or none. *)
output_stock_definition(values_, job) ==
    LET st == job.Stock
        fa(n) == format_for_axis(values_, Quantity(n))
        box(off, size) ==
            << [num |-> << >>, kind |-> "BLK FORM 0.1", axis |-> "Z",
                X |-> fa(off.X), Y |-> fa(off.Y), Z |-> fa(off.Z)],
               [num |-> << >>, kind |-> "BLK FORM 0.2",
                X |-> fa(size.X + off.X), Y |-> fa(size.Y + off.Y),
                Z |-> fa(size.Z + off.Z)] >>
    IN  IF ~job.hasStock THEN << >>
        ELSE CASE st.StockType = "CreateBox" ->
                    box(st.Base, [X |-> st.Length, Y |-> st.Width, Z |-> st.Height])
               [] st.StockType = "CreateCylinder" ->
                    IF values_.SUPPORT_CYLINDER_STOCK
                    THEN << [num |-> << >>, kind |-> "BLK FORM CYLINDER", axis |-> "Z",
                             R |-> fa(st.Radius), L |-> fa(st.Height),
                             DIST |-> fa(st.Base.Z)] >>
                    ELSE box([X |-> st.Base.X - st.Radius, Y |-> st.Base.Y - st.Radius,
                              Z |-> st.Base.Z],
                             [X |-> st.Radius * 2, Y |-> st.Radius * 2, Z |-> st.Height])
               [] OTHER -> << >>

output_header(values_) ==
    IF_(values_.OUTPUT_HEADER,
        << create_comment(values_, << "Exported by FreeCAD" >>),
           create_comment(values_, << "Post Processor: ", values_.POSTPROCESSOR_FILE_NAME >>),
           create_comment(values_, << "Cam File: " >>),
           create_comment(values_, << "Output Time: " >>) >>)

output_safetyblock(values_) == BlockLines("SAFETYBLOCK", values_.SAFETYBLOCK)

ToolComments(values_, ol) ==
    SelectSeq([i \in 1..Len(ol) |->
                  create_comment(values_,
                      IF ol[i].tc THEN << "T", ol[i].ToolNumber, "=", ol[i].Label >>
                      ELSE << >>)],
              LAMBDA l : l.text # << >>)

output_tool_list(values_, ol) ==
    IF_(values_.OUTPUT_COMMENTS /\ values_.LIST_TOOLS_IN_PREAMBLE, ToolComments(values_, ol))

output_preamble(values_) ==
    IF_(values_.OUTPUT_COMMENTS, << create_comment(values_, << "Begin preamble" >>) >>)
    \o BlockLines("PREAMBLE", values_.PREAMBLE)

output_start_bcnc(values_, o) ==
    IF_(values_.OUTPUT_BCNC,
        << create_comment(values_, << "Block-name: ", o.Label >>),
           create_comment(values_, << "Block-expand: 0" >>),
           create_comment(values_, << "Block-enable: 1" >>) >>)

output_preop(values_, o) ==
    IF_(values_.OUTPUT_COMMENTS,
        << create_comment(values_,
               IF values_.SHOW_OPERATION_LABELS THEN << "Begin operation: ", o.Label >>
               ELSE << "Begin operation" >>) >>
        \o IF_(values_.SHOW_MACHINE_UNITS,
               << create_comment(values_, << "Machine units: " >>) >>)
        \o IF_(values_.OUTPUT_MACHINE_NAME,
               << create_comment(values_, << "Machine: " >>) >>))
    \o BlockLines("PRE_OPERATION", values_.PRE_OPERATION)

output_postop(values_, o) ==
    IF_(values_.OUTPUT_COMMENTS,
        << create_comment(values_,
               IF values_.SHOW_OPERATION_LABELS THEN << "Finish operation: ", o.Label >>
               ELSE << "Finish operation" >>) >>)
    \o BlockLines("POST_OPERATION", values_.POST_OPERATION)

output_return_to(values_) ==
    IF_(values_.RETURN_TO # << >>,
        << [num |-> << >>, kind |-> "G0", text |-> values_.RETURN_TO] >>)

output_postamble_header(values_) ==
    IF_(values_.OUTPUT_COMMENTS, << create_comment(values_, << "Begin postamble" >>) >>)

output_tool_return(values_) == BlockLines("TOOLRETURN", values_.TOOLRETURN)

output_postamble(values_) == BlockLines("POSTAMBLE", values_.POSTAMBLE)

----------------------------------------------------------------------------
(* Coolant *)

CoolantChoiceAsAsked(mode, flood, mist) ==
    CASE mode = "None" -> [used |-> "None", command |-> "M9"]
      [] mode = "Flood" /\ (flood \/ ~mist) -> [used |-> "Flood", command |-> "M8"]
      [] OTHER -> [used |-> "Mist", command |-> "M7"]

(* The match of output_coolant_update: the mode used and its command, the  *)
(* command "" when no case but the last applies.                            *)
CoolantChoice(mode, flood, mist) ==
    CASE mode = "None" -> [used |-> "None", command |-> "M9"]
      [] mode = "Flood" /\ flood -> [used |-> "Flood", command |-> "M8"]
      [] mode = "Mist" /\ flood /\ ~mist -> [used |-> "Flood", command |-> "M8"]
      [] mode = "Mist" /\ mist -> [used |-> "Mist", command |-> "M7"]
      [] mode = "Flood" /\ ~flood /\ mist -> [used |-> "Mist", command |-> "M7"]
      [] OTHER -> [used |-> "", command |-> ""]

CoolantLines(values_, mode, choice) ==
    IF_(values_.OUTPUT_COMMENTS,
        << create_comment(values_,
               IF mode = "None" THEN << "Coolant Off" >>
               ELSE IF mode = choice.used THEN << "Coolant On: ", mode >>
               ELSE << "Coolant On: ", mode, " not available, using ", choice.used >>) >>)
    \o << Line(choice.command) >>

(* heidenhain_post.py: the new values and the lines appended for operation o *)
output_coolant_update(values_, o) ==
    LET new_coolant_mode == o.CoolantMode
        prev_coolant_mode == values_.coolant_mode
        choice == CoolantChoice(new_coolant_mode, values_.SUPPORT_FLOOD_COOLANT,
                                values_.SUPPORT_MIST_COOLANT)
    IN  IF values_.ENABLE_COOLANT /\ prev_coolant_mode # new_coolant_mode
           /\ choice.command # ""
        THEN [values |-> [values_ EXCEPT !.coolant_mode = choice.used],
              lines |-> CoolantLines(values_, new_coolant_mode, choice)]
        ELSE [values |-> values_, lines |-> << >>]

(* refactored_heidenhain_post.py: the lines appended for the mode handed in *)
refactored_output_coolant_update(values_, mode) ==
    LET choice == CoolantChoice(mode, values_.SUPPORT_FLOOD_COOLANT,
                                values_.SUPPORT_MIST_COOLANT)
    IN  IF values_.ENABLE_COOLANT /\ choice.command # ""
        THEN CoolantLines(values_, mode, choice)
        ELSE << >>

----------------------------------------------------------------------------
(* Motion *)

Axes == { "X", "Y", "Z", "A", "B", "C" }

(* values["FMAX_SPEED"] / 60, mm/s, in feed units of 1/3 mm/s *)
FMAX_SPEED(values_) == values_.FMAX_SPEED \div 20

(* Units.Quantity(f, Units.Velocity) as format_for_feed's getValueAs sees it: *)
(* mm/min, in units of 10^-FEED_PRECISION                                     *)
FeedQuantity(values_, f) == Quantity(f * 20 * Pow10(values_.FEED_PRECISION))

SpindleQuantity(values_, s) == Quantity(s * Pow10(values_.SPINDLE_DECIMALS))

FeedWord(values_, f) ==
    IF values_.USE_FMAX /\ f = FMAX_SPEED(values_)
    THEN [p |-> "F MAX", v |-> << >>]
    ELSE [p |-> "F", v |-> format_for_feed(values_, FeedQuantity(values_, f))]

(* The initial current_parameters of parse_a_path *)
InitialParameters(values_) ==
    [ X |-> UNLIKELY * Pow10(values_.AXIS_PRECISION),
      Y |-> UNLIKELY * Pow10(values_.AXIS_PRECISION),
      Z |-> UNLIKELY * Pow10(values_.AXIS_PRECISION),
      A |-> UNLIKELY * Pow10(values_.AXIS_PRECISION),
      B |-> UNLIKELY * Pow10(values_.AXIS_PRECISION),
      C |-> UNLIKELY * Pow10(values_.AXIS_PRECISION),
      I |-> UNLIKELY * Pow10(values_.AXIS_PRECISION),
      J |-> UNLIKELY * Pow10(values_.AXIS_PRECISION),
      K |-> UNLIKELY * Pow10(values_.AXIS_PRECISION),
      R |-> "",
      D |-> "",
      F |-> UNLIKELY * 3,
      S |-> UNLIKELY ]

(* The comparisons of output_line with the tracked value *)
AxisDiffersAlways(params, cur, p) == TRUE

AxisDiffers(params, cur, p) == params[p] # cur[p]

FeedDiffersAlways(params, cur) == TRUE

FeedDiffers(params, cur) == params["F"] # cur["F"]

(* line == "L": no word was added *)
NoWordsNever(words) == FALSE

NoWords(words) == words = << >>

(* The loop of output_line over PARAMETER_ORDER from index i on: the tracked *)
(* parameters and the words of the line it ends with                         *)
RECURSIVE LineLoop(_, _, _, _, _)
LineLoop(values_, params, cur, words, i) ==
    IF i > Len(PARAMETER_ORDER) THEN [cur |-> cur, words |-> words]
    ELSE LET p == PARAMETER_ORDER[i]
         IN  IF p \notin DOMAIN params
             THEN LineLoop(values_, params, cur, words, i + 1)
             ELSE CASE p \in Axes ->
                         IF values_.MOTION_MODE = "G91"
                         THEN LineLoop(values_, params, [cur EXCEPT ![p] = 0], words, i + 1)
                         ELSE IF AxisDiffers(params, cur, p)
                         THEN LineLoop(values_, params, [cur EXCEPT ![p] = params[p]],
                                  Append(words, [p |-> p,
                                      v |-> format_for_axis(values_, Quantity(params[p]))]),
                                  i + 1)
                         ELSE LineLoop(values_, params, cur, words, i + 1)
                    [] p = "R" ->
                         IF params["R"] # cur["R"]
                         THEN LineLoop(values_, params, [cur EXCEPT !["R"] = params["R"]],
                                  Append(words, [p |-> "R", v |-> << params["R"] >>]),
                                  i + 1)
                         ELSE LineLoop(values_, params, cur, words, i + 1)
                    [] p = "F" ->
                         IF FeedDiffers(params, cur)
                         THEN LineLoop(values_, params, [cur EXCEPT !["F"] = params["F"]],
                                  Append(words, FeedWord(values_, params["F"])),
                                  i + 1)
                         ELSE LineLoop(values_, params, cur, words, i + 1)
                    [] OTHER -> LineLoop(values_, params, cur, words, i + 1)

LineParametersCompensated(values_, cmd) ==
    LET withR == ("R" :> IF cmd.Name = "G0" THEN "0" ELSE "L") @@ cmd.Parameters
    IN  IF cmd.Name = "G0" THEN ("F" :> FMAX_SPEED(values_)) @@ withR ELSE withR

(* The command's Parameters as output_line leaves them *)
LineParameters(values_, cmd) ==
    LET withR == ("R" :> "0") @@ cmd.Parameters
    IN  IF cmd.Name = "G0" THEN ("F" :> FMAX_SPEED(values_)) @@ withR ELSE withR

(* output_line: the command as left, the tracked parameters, the lines appended *)
output_line(values_, cmd, cur) ==
    LET params == LineParameters(values_, cmd)
        r == LineLoop(values_, params, cur, << >>, 1)
    IN  [ command |-> [cmd EXCEPT !.Parameters = params],
          cur |-> r.cur,
          lines |-> IF_(~NoWords(r.words),
                        << [num |-> << >>, kind |-> "L", words |-> r.words] >>) ]

(* The first loop of output_arc: in absolute mode the centre (I, J, K) is   *)
(* the tracked position plus the offset, then the position is the end point *)
RECURSIVE ArcTrack(_, _, _)
ArcTrack(params, cur, i) ==
    LET pairs == << << "X", "I" >>, << "Y", "J" >>, << "Z", "K" >> >>
    IN  IF i > Len(pairs) THEN cur
        ELSE LET a == pairs[i][1]
                 b == pairs[i][2]
                 c1 == IF b \in DOMAIN params
                       THEN [cur EXCEPT ![b] = cur[a] + params[b]] ELSE cur
                 c2 == IF a \in DOMAIN params
                       THEN [c1 EXCEPT ![a] = params[a]] ELSE c1
             IN  ArcTrack(params, c2, i + 1)

(* The command's Parameters as output_arc leaves them *)
ArcParameters(cmd) ==
    LET withD == CASE cmd.Name = "G2" -> ("D" :> " DR-") @@ cmd.Parameters
                   [] cmd.Name = "G3" -> ("D" :> " DR+") @@ cmd.Parameters
                   [] OTHER -> cmd.Parameters
    IN  ("R" :> "0") @@ withD

(* The loop of output_arc over PARAMETER_ORDER from index i on: the tracked *)
(* parameters, the words of the CC line and those of the C line             *)
RECURSIVE ArcLoop(_, _, _, _, _, _)
ArcLoop(values_, params, cur, center, point, i) ==
    IF i > Len(PARAMETER_ORDER) THEN [cur |-> cur, center |-> center, point |-> point]
    ELSE LET p == PARAMETER_ORDER[i]
             skip == ArcLoop(values_, params, cur, center, point, i + 1)
         IN  IF p \notin DOMAIN params THEN skip
             ELSE CASE p \in { "X", "Y" } ->
                         IF values_.MOTION_MODE = "G91"
                         THEN ArcLoop(values_, params, [cur EXCEPT ![p] = 0], center,
                                      point, i + 1)
                         ELSE ArcLoop(values_, params, cur, center,
                                  Append(point, [p |-> p,
                                      v |-> format_for_axis(values_, Quantity(cur[p]))]),
                                  i + 1)
                    [] p \in { "I", "J" } ->
                         ArcLoop(values_, params, cur,
                             Append(center, [p |-> IF p = "I" THEN "X" ELSE "Y",
                                 v |-> format_for_axis(values_, Quantity(cur[p]))]),
                             point, i + 1)
                    [] p = "D" ->
                         ArcLoop(values_, params, cur, center,
                             Append(point, [p |-> params["D"], v |-> << >>]), i + 1)
                    [] p = "R" ->
                         IF params["R"] # cur["R"]
                         THEN ArcLoop(values_, params, [cur EXCEPT !["R"] = params["R"]],
                                  center,
                                  Append(point, [p |-> "R", v |-> << params["R"] >>]),
                                  i + 1)
                         ELSE skip
                    [] p = "F" ->
                         IF params["F"] # cur["F"]
                         THEN ArcLoop(values_, params, [cur EXCEPT !["F"] = params["F"]],
                                  center, Append(point, FeedWord(values_, params["F"])),
                                  i + 1)
                         ELSE skip
                    [] OTHER -> skip

(* output_arc: the command as left, the tracked parameters, the lines appended *)
output_arc(values_, cmd, cur) ==
    LET tracked == IF values_.MOTION_MODE = "G91" THEN cur
                   ELSE ArcTrack(cmd.Parameters, cur, 1)
        params == ArcParameters(cmd)
        r == ArcLoop(values_, params, tracked, << >>, << >>, 1)
    IN  [ command |-> [cmd EXCEPT !.Parameters = params],
          cur |-> r.cur,
          lines |-> IF_(r.center # << >>,
                        << [num |-> << >>, kind |-> "CC", words |-> r.center] >>)
                    \o << [num |-> << >>, kind |-> "C", words |-> r.point] >> ]

output_optional_stop(values_) ==
    IF_(values_.OUTPUT_COMMENTS, << create_comment(values_, << "Optional stop" >>) >>)
    \o << Line("M1") >>

output_forced_stop(values_) ==
    IF_(values_.OUTPUT_COMMENTS, << create_comment(values_, << "Forced stop" >>) >>)
    \o << Line("M2") >>

output_tool_change_spindle_first(values_, tc) ==
    LET v2 == [values_ EXCEPT !.spindle_dir = tc.SpindleDir]
        change ==
            (CASE v2.spindle_dir = "Forward" -> << Line("M3") >>
               [] v2.spindle_dir = "Reverse" -> << Line("M4") >>
               [] OTHER -> << >>)
            \o << [num |-> << >>, kind |-> "TOOL CALL", tool |-> tc.ToolNumber,
                   axis |-> "Z",
                   S |-> format_for_spindle(values_,
                             SpindleQuantity(values_, tc.SpindleSpeed))] >>
            \o << Line("M6") >>
            \o BlockLines("TOOL_CHANGE", values_.TOOL_CHANGE)
    IN  [ values |-> IF values_.OUTPUT_TOOL_CHANGE THEN v2 ELSE values_,
          lines |-> IF_(values_.OUTPUT_COMMENTS,
                        << create_comment(values_, << "Begin toolchange" >>) >>)
                    \o IF_(values_.OUTPUT_TOOL_CHANGE, change)
                    \o IF_(values_.OUTPUT_COMMENTS,
                           << create_comment(values_, << "End toolchange" >>) >>) ]

(* output_tool_change for the path object tc: the new values, the lines appended *)
output_tool_change(values_, tc) ==
    LET stop == values_.STOP_SPINDLE_FOR_TOOL_CHANGE /\ values_.spindle_state # "None"
        v1 == IF stop THEN [values_ EXCEPT !.spindle_state = "None"] ELSE values_
        v2 == [v1 EXCEPT !.spindle_dir = tc.SpindleDir]
        change ==
            IF_(stop, << Line("M5") >>)
            \o << [num |-> << >>, kind |-> "TOOL CALL", tool |-> tc.ToolNumber,
                   axis |-> "Z",
                   S |-> format_for_spindle(values_,
                             SpindleQuantity(values_, tc.SpindleSpeed))] >>
            \o << Line("M6") >>
            \o (CASE v2.spindle_dir = "Forward" -> << Line("M3") >>
                  [] v2.spindle_dir = "Reverse" -> << Line("M4") >>
                  [] OTHER -> << >>)
            \o BlockLines("TOOL_CHANGE", values_.TOOL_CHANGE)
    IN  [ values |-> IF values_.OUTPUT_TOOL_CHANGE THEN v2 ELSE values_,
          lines |-> IF_(values_.OUTPUT_COMMENTS,
                        << create_comment(values_, << "Begin toolchange" >>) >>)
                    \o IF_(values_.OUTPUT_TOOL_CHANGE, change)
                    \o IF_(values_.OUTPUT_COMMENTS,
                           << create_comment(values_, << "End toolchange" >>) >>) ]

(* Normalize: G0x -> Gx and M0x -> Mx *)
NormalizedName(name) ==
    CASE name = "G00" -> "G0"
      [] name = "G01" -> "G1"
      [] name = "G02" -> "G2"
      [] name = "G03" -> "G3"
      [] name = "M01" -> "M1"
      [] name = "M02" -> "M2"
      [] name = "M06" -> "M6"
      [] OTHER -> name

(* One pass of parse_a_path's loop, for command cmd of path object o: the  *)
(* new values, the command as left, the tracked parameters, the lines      *)
parse_command(values_, o, cmd, cur) ==
    LET command_name == NormalizedName(cmd.Name)
        v1 == IF command_name \in { "G90", "G91" }
              THEN [values_ EXCEPT !.MOTION_MODE = command_name] ELSE values_
        same == [values |-> v1, command |-> cmd, cur |-> cur, lines |-> << >>]
    IN  IF command_name = "" /\ ~values_.OUTPUT_BLANK_LINES THEN
            [values |-> values_, command |-> cmd, cur |-> cur, lines |-> << >>]
        ELSE CASE command_name \in { "G0", "G1" } ->
                    LET r == output_line(v1, cmd, cur)
                    IN  [values |-> v1, command |-> r.command, cur |-> r.cur,
                         lines |-> r.lines]
               [] command_name \in { "G2", "G3" } ->
                    LET r == output_arc(v1, cmd, cur)
                    IN  [values |-> v1, command |-> r.command, cur |-> r.cur,
                         lines |-> r.lines]
               [] command_name = "M1" ->
                    [same EXCEPT !.lines = output_optional_stop(v1)]
               [] command_name \in { "M2", "M30" } ->
                    [same EXCEPT !.lines = output_forced_stop(v1)]
               [] command_name = "M6" ->
                    LET r == output_tool_change(v1, o)
                    IN  [same EXCEPT !.values = r.values, !.lines = r.lines]
               [] OTHER -> same

----------------------------------------------------------------------------
(* Line numbers *)

(* The kinds of the lines of the text blocks, and a line of such a block   *)
(* that is written like a comment                                          *)
BlockKinds ==
    { "PREAMBLE", "SAFETYBLOCK", "TOOLRETURN", "POSTAMBLE", "PRE_OPERATION",
      "POST_OPERATION", "TOOL_CHANGE" }

CommentLikeText == "; (setup)"

(* line.startswith(values["COMMENT_PREFIX"]) *)
StartsWithCommentPrefix(line) ==
    \/ line.kind = "comment"
    \/ line.kind \in BlockKinds /\ line.text = CommentLikeText

IsNumberedAlways(values_, line) == TRUE

IsNumbered(values_, line) ==
    IF values_.POSTPROCESSOR_FILE_NAME = Heidenhain
    THEN (~StartsWithCommentPrefix(line) /\ ~values_.LINE_NUMBER_ON_COMMENTS)
         \/ values_.LINE_NUMBER_ON_COMMENTS
    ELSE TRUE

(* The loop of add_linenumbers from line i on: the new values and the lines *)
RECURSIVE NumberLoop(_, _, _)
NumberLoop(values_, lines, i) ==
    IF i > Len(lines) THEN [values |-> values_, gcode |-> lines]
    ELSE IF IsNumbered(values_, lines[i])
    THEN NumberLoop([values_ EXCEPT !.line_number = @ + values_.LINE_INCREMENT],
                    [lines EXCEPT ![i].num = << values_.line_number >>], i + 1)
    ELSE NumberLoop(values_, lines, i + 1)

add_linenumbers(values_, lines) ==
    IF ~values_.OUTPUT_LINE_NUMBERS THEN [values |-> values_, gcode |-> lines]
    ELSE NumberLoop(values_, lines, 1)

----------------------------------------------------------------------------
(* export *)

NoCommand == [Name |-> "", Parameters |-> << >>]

NoJob == [hasLabel |-> FALSE, hasStock |-> FALSE]

HasPath(ol) == \A i \in 1..Len(ol) : ol[i].hasPath

ExportInvalidAfterHeader(ol) ==
    /\ pc \in { "idle", "done" }
    /\ nexport < sections
    /\ ~HasPath(ol) \/ ol = << >>
    /\ nexport' = nexport + 1
    /\ objectslist' = ol
    /\ current_job' = NoJob
    /\ gcode' = output_header(values)
    /\ nobj' = 0
    /\ coolant_mode' = "None"
    /\ pc' = "done"
    /\ result' = IF values.POSTPROCESSOR_FILE_NAME = Heidenhain THEN "None" ELSE "''"
    /\ UNCHANGED << values, sections, ncmd, command, current_parameters,
                    fmt_arg, fmt_fn, fmt_ret >>

(* export is called for the next section with an object that is no path, or *)
(* with no objects: it returns (None, or "" in the refactored script, whose *)
(* objectslist[0] raises IndexError on an empty list) before any output.    *)
ExportInvalid(ol) ==
    /\ pc \in { "idle", "done" }
    /\ nexport < sections
    /\ ~HasPath(ol) \/ ol = << >>
    /\ nexport' = nexport + 1
    /\ objectslist' = ol
    /\ current_job' = NoJob
    /\ gcode' = << >>
    /\ nobj' = 0
    /\ coolant_mode' = "None"
    /\ IF ~HasPath(ol)
       THEN /\ pc' = "done"
            /\ result' = IF values.POSTPROCESSOR_FILE_NAME = Heidenhain
                         THEN "None" ELSE "''"
       ELSE IF values.POSTPROCESSOR_FILE_NAME = Heidenhain
       THEN pc' = "done" /\ result' = "None"
       ELSE pc' = "raised" /\ result' = "IndexError"
    /\ UNCHANGED << values, sections, ncmd, command, current_parameters,
                    fmt_arg, fmt_fn, fmt_ret >>

(* export up to its loop over the objects *)
ExportBegin(ol, job) ==
    /\ pc \in { "idle", "done" }
    /\ nexport < sections
    /\ HasPath(ol)
    /\ ol # << >>
    /\ nexport' = nexport + 1
    /\ objectslist' = ol
    /\ current_job' = job
    /\ gcode' = output_header(values)
                \o output_safetyblock(values)
                \o output_tool_list(values, ol)
                \o output_preamble(values)
                \o output_pgm_begin(values, job)
                \o IF_(values.POSTPROCESSOR_FILE_NAME = Heidenhain,
                       output_stock_definition(values, job))
    /\ pc' = "objects"
    /\ result' = "running"
    /\ nobj' = 0
    /\ coolant_mode' = "None"
    /\ UNCHANGED << values, sections, ncmd, command, current_parameters,
                    fmt_arg, fmt_fn, fmt_ret >>

(* The loop meets an inactive operation *)
SkipInactive ==
    /\ pc = "objects"
    /\ nobj < Len(objectslist)
    /\ ~objectslist[nobj + 1].active
    /\ nobj' = nobj + 1
    /\ UNCHANGED << values, sections, nexport, objectslist, current_job, gcode, pc,
                    result, coolant_mode, ncmd, command, current_parameters,
                    fmt_arg, fmt_fn, fmt_ret >>

IsFixtureNever(pathobj) == FALSE

(* parse_a_path's test for a fixture *)
IsFixture(pathobj) == pathobj.fixture

(* The loop meets an active operation: everything up to the first command  *)
(* of its path, and the whole pass when no command of it is processed (the  *)
(* refactored script, a fixture).                                           *)
BeginOp ==
    /\ pc = "objects"
    /\ nobj < Len(objectslist)
    /\ objectslist[nobj + 1].active
    /\ LET o == objectslist[nobj + 1]
       IN  IF values.POSTPROCESSOR_FILE_NAME = Heidenhain
           THEN LET r == output_coolant_update(values, o)
                    before == gcode \o output_start_bcnc(values, o)
                                    \o output_preop(values, o) \o r.lines
                                    \o IF_(r.values.OUTPUT_PATH_LABELS
                                               /\ r.values.OUTPUT_COMMENTS,
                                           << create_comment(r.values,
                                                  << "Compound: ", o.Label >>) >>)
                IN  /\ values' = r.values
                    /\ coolant_mode' = coolant_mode
                    /\ IF IsFixture(o)
                       THEN /\ gcode' = before \o output_postop(r.values, o)
                            /\ nobj' = nobj + 1
                            /\ UNCHANGED << pc, ncmd, command, current_parameters >>
                       ELSE /\ gcode' = before
                            /\ pc' = "path"
                            /\ ncmd' = 0
                            /\ command' = NoCommand
                            /\ current_parameters' = InitialParameters(r.values)
                            /\ nobj' = nobj
           ELSE LET new_coolant_mode == o.CoolantMode
                IN  /\ gcode' = gcode \o output_start_bcnc(values, o)
                                      \o output_preop(values, o)
                                      \o IF_(coolant_mode # new_coolant_mode,
                                             refactored_output_coolant_update(values,
                                                 new_coolant_mode))
                                      \o output_postop(values, o)
                    /\ coolant_mode' = new_coolant_mode
                    /\ nobj' = nobj + 1
                    /\ UNCHANGED << values, pc, ncmd, command, current_parameters >>
    /\ UNCHANGED << sections, nexport, objectslist, current_job, result,
                    fmt_arg, fmt_fn, fmt_ret >>

(* parse_a_path processes the next command of the path *)
ParseCommand(cmd) ==
    /\ pc = "path"
    /\ ncmd < MaxCmds
    /\ LET r == parse_command(values, objectslist[nobj + 1], cmd, current_parameters)
       IN  /\ values' = r.values
           /\ command' = r.command
           /\ current_parameters' = r.cur
           /\ gcode' = gcode \o r.lines
    /\ ncmd' = ncmd + 1
    /\ UNCHANGED << sections, nexport, objectslist, current_job, pc, result, nobj,
                    coolant_mode, fmt_arg, fmt_fn, fmt_ret >>

(* The path has no further command: the rest of the loop's pass *)
EndOp ==
    /\ pc = "path"
    /\ gcode' = gcode \o output_postop(values, objectslist[nobj + 1])
    /\ nobj' = nobj + 1
    /\ pc' = "objects"
    /\ UNCHANGED << values, sections, nexport, objectslist, current_job, result,
                    coolant_mode, ncmd, command, current_parameters,
                    fmt_arg, fmt_fn, fmt_ret >>

(* export after its loop.  finalize_export's text is dropped: export ends   *)
(* without a return statement.                                              *)
ExportEnd ==
    /\ pc = "objects"
    /\ nobj = Len(objectslist)
    /\ LET lines == gcode
                    \o IF_(values.POSTPROCESSOR_FILE_NAME = Refactored,
                           output_return_to(values))
                    \o output_pgm_end(values, current_job)
                    \o output_postamble_header(values)
                    \o output_tool_return(values)
                    \o output_safetyblock(values)
                    \o output_postamble(values)
           r == add_linenumbers(values, lines)
       IN  /\ values' = r.values
           /\ gcode' = r.gcode
    /\ pc' = "done"
    /\ result' = "None"
    /\ UNCHANGED << sections, nexport, objectslist, current_job, nobj, coolant_mode,
                    ncmd, command, current_parameters, fmt_arg, fmt_fn, fmt_ret >>

----------------------------------------------------------------------------
(* Calls of the format functions on their own *)

Formatted(fn, text) ==
    /\ pc = "format"
    /\ fmt_fn = ""
    /\ fmt_fn' = fn
    /\ fmt_ret' = text
    /\ UNCHANGED << values, sections, nexport, objectslist, current_job, gcode, pc,
                    result, nobj, coolant_mode, ncmd, command, current_parameters,
                    fmt_arg >>

FormatAxis == Formatted("format_for_axis", format_for_axis(values, fmt_arg))

FormatFeed == Formatted("format_for_feed", format_for_feed(values, fmt_arg))

FormatSpindle == Formatted("format_for_spindle", format_for_spindle(values, fmt_arg))

----------------------------------------------------------------------------
(* Inputs *)

Operation(active, coolant, fixture) ==
    [ hasPath |-> TRUE, Label |-> "Op", fixture |-> fixture, active |-> active,
      CoolantMode |-> coolant, tc |-> FALSE, ToolNumber |-> 0,
      SpindleDir |-> "None", SpindleSpeed |-> 0 ]

NoPath == [Operation(TRUE, "None", FALSE) EXCEPT !.hasPath = FALSE]

(* All lists of 0..n elements of S *)
ListsUpTo(S, n) == UNION { [1..k -> S] : k \in 0..n }

BoxJob ==
    [ hasLabel |-> TRUE, Label |-> "Job", hasStock |-> TRUE,
      Stock |-> [ StockType |-> "CreateBox", Base |-> [X |-> -105, Y |-> 0, Z |-> -200],
                  Length |-> 1000, Width |-> 505, Height |-> 200, Radius |-> 0 ] ]

NoParameters == [x \in { } |-> 0]

AxisParameters(axes, vals) == UNION { [S -> vals] : S \in SUBSET axes }

FeedParameters(vals) == { NoParameters } \cup { ("F" :> f) : f \in vals }

(* The G0, G1, G90 and G91 commands over two axes (X at two positions, Z   *)
(* at one) and two feeds, one of them the rapid feed; and a G1 to the      *)
(* initial tracked X.                                                      *)
LineCommands ==
    { [Name |-> "G1", Parameters |-> x @@ z @@ f] :
          x \in AxisParameters({ "X" }, { 0, 15 }),
          z \in AxisParameters({ "Z" }, { 15 }),
          f \in FeedParameters({ 30, FMAX_SPEED_DEFAULT \div 20 }) }
    \cup { [Name |-> "G0", Parameters |-> x @@ z] :
               x \in AxisParameters({ "X" }, { 0, 15 }),
               z \in AxisParameters({ "Z" }, { 15 }) }
    \cup { [Name |-> "G1", Parameters |-> ("X" :> UNLIKELY * 10)] }
    \cup { [Name |-> n, Parameters |-> NoParameters] : n \in { "G90", "G91" } }

ToolController(number, dir, speed) ==
    [Operation(TRUE, "None", FALSE) EXCEPT
        !.Label = "TC", !.tc = TRUE, !.ToolNumber = number, !.SpindleDir = dir,
        !.SpindleSpeed = speed]

(* A tool controller, an operation, an inactive operation, a fixture and an *)
(* object that is no path                                                   *)
ExportObjects ==
    { ToolController(2, "Forward", 4000), Operation(TRUE, "Flood", FALSE),
      Operation(FALSE, "None", FALSE), Operation(TRUE, "None", TRUE), NoPath }

(* The Path.Commands of these objects: the tool change of a tool controller, *)
(* a rapid move, a feed move and a stop of an operation                      *)
PathCommands(o) ==
    IF o.tc THEN << [Name |-> "M6", Parameters |-> NoParameters] >>
    ELSE << [Name |-> "G0", Parameters |-> ("Z" :> 500)],
            [Name |-> "G1", Parameters |-> ("X" :> 15) @@ ("F" :> 30)],
            [Name |-> "M2", Parameters |-> NoParameters] >>

CoolantObjects ==
    { Operation(TRUE, m, FALSE) : m \in { "None", "Flood", "Mist" } }
    \cup { Operation(FALSE, "Flood", FALSE) }

(* One operation, without coolant *)
LineObjects == << Operation(TRUE, "None", FALSE) >>

(* parse_a_path processes the next command of the path these objects hold *)
ParsePath ==
    /\ pc = "path"
    /\ ncmd < Len(PathCommands(objectslist[nobj + 1]))
    /\ ParseCommand(PathCommands(objectslist[nobj + 1])[ncmd + 1])

----------------------------------------------------------------------------
(* Specifications *)

Start(v, n, at, number) ==
    /\ values = v
    /\ sections = n
    /\ nexport = 0
    /\ objectslist = << >>
    /\ current_job = NoJob
    /\ gcode = << >>
    /\ pc = at
    /\ result = ""
    /\ nobj = 0
    /\ coolant_mode = "None"
    /\ ncmd = 0
    /\ command = NoCommand
    /\ current_parameters = InitialParameters(init_values(Heidenhain))
    /\ fmt_arg = number
    /\ fmt_fn = ""
    /\ fmt_ret = << >>

(* One export of either script, over every setting that adds or moves lines *)
Init ==
    \E name \in { Heidenhain, Refactored }, header, comments, upper, blocks \in BOOLEAN :
        Start([init_values(name) EXCEPT
                  !.OUTPUT_HEADER = header,
                  !.OUTPUT_COMMENTS = comments,
                  !.PGM_UPPERCASE = upper,
                  !.SAFETYBLOCK = IF blocks THEN << "M5" >> ELSE << >>,
                  !.PREAMBLE = IF blocks THEN << "M25" >> ELSE << >>,
                  !.TOOLRETURN = IF blocks THEN << "M26" >> ELSE << >>,
                  !.POSTAMBLE = IF blocks THEN << "M30" >> ELSE << >>,
                  !.PRE_OPERATION = IF blocks THEN << "M27" >> ELSE << >>,
                  !.POST_OPERATION = IF blocks THEN << "M28" >> ELSE << >>],
              1, "idle", Quantity(0))

Next ==
    \/ \E ol \in ListsUpTo(ExportObjects, MaxObjs) : ExportInvalid(ol)
    \/ \E ol \in ListsUpTo(ExportObjects, MaxObjs), job \in { NoJob, BoxJob } :
           ExportBegin(ol, job)
    \/ SkipInactive
    \/ BeginOp
    \/ ParsePath
    \/ EndOp
    \/ ExportEnd

Spec == Init /\ [][Next]_vars

(* The commands of one path object of heidenhain_post.py, no comments *)
InitLine ==
    \E fmax \in BOOLEAN :
        Start([init_values(Heidenhain) EXCEPT
                  !.USE_FMAX = fmax,
                  !.OUTPUT_HEADER = FALSE,
                  !.OUTPUT_COMMENTS = FALSE,
                  !.OUTPUT_LINE_NUMBERS = FALSE], 1, "idle", Quantity(0))

NextLine ==
    \/ ExportBegin(LineObjects, NoJob)
    \/ BeginOp
    \/ \E cmd \in LineCommands : ParseCommand(cmd)
    \/ EndOp
    \/ ExportEnd

SpecLine == InitLine /\ [][NextLine]_vars

(* The operations of the sections of one job, where only coolant is followed *)
InitCoolant ==
    \E name \in { Heidenhain, Refactored }, enable, flood, mist, comments \in BOOLEAN :
        Start([init_values(name) EXCEPT
                  !.ENABLE_COOLANT = enable,
                  !.SUPPORT_FLOOD_COOLANT = flood,
                  !.SUPPORT_MIST_COOLANT = mist,
                  !.OUTPUT_COMMENTS = comments,
                  !.OUTPUT_HEADER = FALSE,
                  !.OUTPUT_LINE_NUMBERS = FALSE],
              MaxExports, "idle", Quantity(0))

NextCoolant ==
    \/ \E ol \in ListsUpTo(CoolantObjects, MaxOps) : ExportBegin(ol, NoJob)
    \/ SkipInactive
    \/ BeginOp
    \/ EndOp
    \/ ExportEnd

SpecCoolant == InitCoolant /\ [][NextCoolant]_vars

(* One call of a format function, over every setting format_parameter reads *)
InitFormat ==
    \E normalize, commas \in BOOLEAN, pa, pf, ps \in 0..MaxPrec,
       neg \in BOOLEAN, mag \in 0..MaxMag :
        Start([init_values(Heidenhain) EXCEPT
                  !.NORMALIZE_PARAMETERS = normalize,
                  !.DECIMAL_COMMAS = commas,
                  !.AXIS_PRECISION = pa,
                  !.FEED_PRECISION = pf,
                  !.SPINDLE_DECIMALS = ps],
              1, "format", [neg |-> neg, mag |-> mag])

NextFormat == FormatAxis \/ FormatFeed \/ FormatSpindle

SpecFormat == InitFormat /\ [][NextFormat]_vars

(* G2 and G3 commands, and G02 as parse_a_path normalizes it to G2: with  *)
(* end point and centre, with one centre offset, without centre, with the  *)
(* centre only; and a feed move, G90 and G91.                              *)
ArcCommands ==
    { [Name |-> n, Parameters |-> ps] :
          n \in { "G2", "G3", "G02" },
          ps \in { ("X" :> 15) @@ ("Y" :> 0) @@ ("I" :> 5) @@ ("J" :> -5),
                   ("X" :> 15) @@ ("Y" :> 0) @@ ("I" :> 5),
                   ("X" :> 15) @@ ("Y" :> 0),
                   ("I" :> 5) @@ ("J" :> -5) } }
    \cup { [Name |-> "G1", Parameters |-> ("X" :> 15) @@ ("F" :> 30)] }
    \cup { [Name |-> n, Parameters |-> NoParameters] : n \in { "G90", "G91" } }

(* The commands of one path object of heidenhain_post.py, arcs among them *)
InitArc ==
    Start([init_values(Heidenhain) EXCEPT
              !.OUTPUT_HEADER = FALSE,
              !.OUTPUT_COMMENTS = FALSE,
              !.OUTPUT_LINE_NUMBERS = FALSE], 1, "idle", Quantity(0))

NextArc ==
    \/ ExportBegin(LineObjects, NoJob)
    \/ BeginOp
    \/ \E cmd \in ArcCommands : ParseCommand(cmd)
    \/ EndOp
    \/ ExportEnd

SpecArc == InitArc /\ [][NextArc]_vars

(* Tool controllers of two tools and every spindle direction *)
ToolObjects ==
    { ToolController(n, d, 4000) : n \in { 1, 2 }, d \in { "Forward", "Reverse", "None" } }

(* The tool changes of an export of heidenhain_post.py, over every setting *)
(* output_tool_change reads                                                *)
InitTool ==
    \E change, stop, comments, block \in BOOLEAN :
        Start([init_values(Heidenhain) EXCEPT
                  !.OUTPUT_TOOL_CHANGE = change,
                  !.STOP_SPINDLE_FOR_TOOL_CHANGE = stop,
                  !.OUTPUT_COMMENTS = comments,
                  !.TOOL_CHANGE = IF block THEN << "M0", "M19" >> ELSE << >>,
                  !.OUTPUT_HEADER = FALSE,
                  !.OUTPUT_LINE_NUMBERS = FALSE], 1, "idle", Quantity(0))

NextTool ==
    \/ \E ol \in ListsUpTo(ToolObjects, MaxObjs) : ExportBegin(ol, NoJob)
    \/ BeginOp
    \/ ParsePath
    \/ EndOp
    \/ ExportEnd

SpecTool == InitTool /\ [][NextTool]_vars

(* A tool controller alone, and with an operation after it *)
NumberedLists ==
    { << ToolController(2, "Forward", 4000) >>,
      << ToolController(2, "Forward", 4000), Operation(TRUE, "Flood", FALSE) >> }

(* No object, an object that is no path, and one after a tool controller *)
InvalidLists ==
    { << >>, << NoPath >>, << ToolController(2, "Forward", 4000), NoPath >> }

(* The sections of one job in either script, over every setting            *)
(* add_linenumbers reads; the preamble has a line written like a comment.  *)
InitNumber ==
    \E name \in { Heidenhain, Refactored }, numbers, oncomments, comments, tens \in BOOLEAN :
        Start([init_values(name) EXCEPT
                  !.OUTPUT_LINE_NUMBERS = numbers,
                  !.LINE_NUMBER_ON_COMMENTS = oncomments,
                  !.LINE_INCREMENT = IF tens THEN 10 ELSE 1,
                  !.OUTPUT_COMMENTS = comments,
                  !.OUTPUT_HEADER = comments,
                  !.PREAMBLE = << CommentLikeText, "M25" >>,
                  !.POSTAMBLE = << "M30" >>],
              MaxExports, "idle", Quantity(0))

NextNumber ==
    \/ \E ol \in InvalidLists : ExportInvalid(ol)
    \/ \E ol \in NumberedLists : ExportBegin(ol, BoxJob)
    \/ BeginOp
    \/ ParsePath
    \/ EndOp
    \/ ExportEnd

SpecNumber == InitNumber /\ [][NextNumber]_vars

----------------------------------------------------------------------------
(* Properties of output_line, under SpecLine *)

(* A step in which parse_a_path hands a G0 or G1 command to output_line *)
LineStep ==
    /\ pc = "path"
    /\ ncmd' = ncmd + 1
    /\ NormalizedName(command'.Name) \in { "G0", "G1" }

(* The lines the step appends to gcode *)
NewLines == SubSeq(gcode', Len(gcode) + 1, Len(gcode'))

HasWord(line, p) == \E k \in 1..Len(line.words) : line.words[k].p = p

HasFeedWord(line) == HasWord(line, "F") \/ HasWord(line, "F MAX")

Emits(p) == \E k \in 1..Len(NewLines) : NewLines[k].kind = "L" /\ HasWord(NewLines[k], p)

EmitsFeed == \E k \in 1..Len(NewLines) : NewLines[k].kind = "L" /\ HasFeedWord(NewLines[k])

AbsoluteMode == values.MOTION_MODE # "G91"

(* C1: in absolute mode (MOTION_MODE other than G91) a G0 or G1 command    *)
(* puts an axis word into its L line exactly when it carries that axis and *)
(* the value differs from the tracked value; the word is the formatted     *)
(* value; and after the command the tracked value of every carried axis is *)
(* the command's value, that of every other axis is unchanged.             *)
C1_AxisWordWhenChanged ==
    [][ (LineStep /\ AbsoluteMode) =>
          LET params == command'.Parameters
          IN  /\ Len(NewLines) <= 1
              /\ SubSeq(gcode', 1, Len(gcode)) = gcode
              /\ \A a \in Axes :
                    LET differs == a \in DOMAIN params
                                   /\ params[a] # current_parameters[a]
                    IN  /\ Emits(a) <=> differs
                        /\ differs =>
                              \E k \in 1..Len(NewLines[1].words) :
                                  NewLines[1].words[k] =
                                      [p |-> a,
                                       v |-> format_for_axis(values, Quantity(params[a]))]
                        /\ current_parameters'[a] =
                              IF a \in DOMAIN params THEN params[a]
                              ELSE current_parameters[a] ]_vars

(* Two commands of a path in absolute mode, a line each: the first line has *)
(* the X word of the value the second command carries too, and the second   *)
(* line has the Z word and no X word.                                       *)
C1_Witness ==
    /\ pc = "path"
    /\ ncmd = 2
    /\ Len(gcode) = 3
    /\ values.MOTION_MODE = "G90"
    /\ command.Name = "G1"
    /\ "X" \in DOMAIN command.Parameters
    /\ "Z" \in DOMAIN command.Parameters
    /\ gcode[2].kind = "L"
    /\ gcode[3].kind = "L"
    /\ \E k \in 1..Len(gcode[2].words) :
          gcode[2].words[k] =
              [p |-> "X", v |-> format_for_axis(values, Quantity(command.Parameters["X"]))]
    /\ ~HasWord(gcode[2], "Z")
    /\ HasWord(gcode[3], "Z")
    /\ ~HasWord(gcode[3], "X")

NoChange ==
    \A p \in DOMAIN command'.Parameters \cap (Axes \cup { "R", "F" }) :
        command'.Parameters[p] = current_parameters[p]

NoBareLine == \A k \in 1..Len(NewLines) : NewLines[k].kind = "L" => NewLines[k].words # << >>

(* C3, as stated: a G0 or G1 command that changes no tracked parameter     *)
(* appends no line and leaves all tracked parameters unchanged, and        *)
(* output_line never appends a bare L line.                                *)
C3_Original ==
    [][ LineStep =>
          /\ NoBareLine
          /\ NoChange => /\ gcode' = gcode
                         /\ current_parameters' = current_parameters ]_vars

(* C3, amended: in absolute mode (MOTION_MODE other than G91) a G0 or G1   *)
(* command that changes no tracked parameter appends no line and leaves    *)
(* all tracked parameters unchanged; in every mode output_line never       *)
(* appends a bare L line.                                                  *)
C3_NoChangeNoLine ==
    [][ LineStep =>
          /\ NoBareLine
          /\ (AbsoluteMode /\ NoChange) => /\ gcode' = gcode
                                           /\ current_parameters' = current_parameters ]_vars

(* Two commands of a path in absolute mode and one line, which has a Z     *)
(* word the second command does not carry: the line is the first           *)
(* command's, with the X word of the second command's value, and the       *)
(* second command appended nothing.                                        *)
C3_Witness ==
    /\ pc = "path"
    /\ ncmd = 2
    /\ Len(gcode) = 2
    /\ values.MOTION_MODE = "G90"
    /\ command.Name = "G1"
    /\ "X" \in DOMAIN command.Parameters
    /\ "Z" \notin DOMAIN command.Parameters
    /\ gcode[2].kind = "L"
    /\ HasWord(gcode[2], "Z")
    /\ \E k \in 1..Len(gcode[2].words) :
          gcode[2].words[k] =
              [p |-> "X", v |-> format_for_axis(values, Quantity(command.Parameters["X"]))]
    /\ \A p \in DOMAIN command.Parameters : command.Parameters[p] = current_parameters[p]

(* C10: with USE_FMAX set, every L line of a G0 command has the F MAX word, *)
(* consecutive rapids included.                                            *)
C10_EveryRapidHasFMax ==
    [][ (LineStep /\ values.USE_FMAX /\ NormalizedName(command'.Name) = "G0") =>
          \A k \in 1..Len(NewLines) :
              NewLines[k].kind = "L" => HasWord(NewLines[k], "F MAX") ]_vars

----------------------------------------------------------------------------
(* Properties of output_coolant_update, under SpecCoolant *)

(* A step in which the loop of export passes an active operation *)
OperationStep ==
    /\ pc = "objects"
    /\ nobj < Len(objectslist)
    /\ objectslist[nobj + 1].active
    /\ (pc' = "path" \/ nobj' = nobj + 1)

IsCoolantCommand(line) == line.kind \in { "M7", "M8", "M9" }

IsCoolantComment(line) ==
    line.kind = "comment" /\ line.text[1] \in { "Coolant Off", "Coolant On: " }

CoolantCommands == SelectSeq(NewLines, IsCoolantCommand)

(* The active operations of this export before the one the loop is at *)
ActiveBefore == { i \in 1..nobj : objectslist[i].active }

PreviousActive == CHOOSE i \in ActiveBefore : \A j \in ActiveBefore : j <= i

(* C4: in heidenhain_post.py a coolant command (M7, M8 or M9) is emitted   *)
(* for an operation only if its coolant mode differs from that of the      *)
(* previous active operation.                                              *)
C4_CoolantOnlyOnChange ==
    [][ ( /\ OperationStep
          /\ values.POSTPROCESSOR_FILE_NAME = Heidenhain
          /\ ActiveBefore # { }
          /\ CoolantCommands # << >> ) =>
          objectslist[PreviousActive].CoolantMode # objectslist[nobj + 1].CoolantMode ]_vars

(* The command C5 gives for a requested mode and the two support flags, "" *)
(* for none                                                                *)
C5_Command(mode, flood, mist) ==
    IF mode = "None" THEN "M9"
    ELSE IF mode = "Flood" THEN (IF flood THEN "M8" ELSE IF mist THEN "M7" ELSE "")
    ELSE IF mode = "Mist" THEN (IF mist THEN "M7" ELSE IF flood THEN "M8" ELSE "")
    ELSE ""

(* C5: with ENABLE_COOLANT set, in both scripts, the coolant command       *)
(* emitted for an operation is the one the requested mode and the two      *)
(* support flags determine: None gives M9; Flood gives M8 if flood is      *)
(* supported, else M7 if mist is; Mist gives M7 if mist is supported, else *)
(* M8 if flood is.  When Flood or Mist is requested and neither is         *)
(* supported, no coolant line (command or comment) is appended and         *)
(* values["coolant_mode"] is unchanged.  M7 is never emitted with mist     *)
(* unsupported, M8 never with flood unsupported.                           *)
C5_CoolantCommandChosen ==
    [][ (OperationStep /\ values.ENABLE_COOLANT) =>
          LET mode == objectslist[nobj + 1].CoolantMode
              flood == values.SUPPORT_FLOOD_COOLANT
              mist == values.SUPPORT_MIST_COOLANT
          IN  /\ Len(CoolantCommands) <= 1
              /\ \A k \in 1..Len(CoolantCommands) :
                    /\ CoolantCommands[k].kind = C5_Command(mode, flood, mist)
                    /\ CoolantCommands[k].kind = "M7" => mist
                    /\ CoolantCommands[k].kind = "M8" => flood
              /\ (mode \in { "Flood", "Mist" } /\ ~flood /\ ~mist) =>
                    /\ \A k \in 1..Len(NewLines) :
                          ~IsCoolantCommand(NewLines[k]) /\ ~IsCoolantComment(NewLines[k])
                    /\ values'.coolant_mode = values.coolant_mode ]_vars

(* An export whose only operation asks for Mist, on a machine with flood   *)
(* coolant only: M8 is in the program, with the comment of the fall-back.  *)
C5_Witness ==
    /\ pc = "done"
    /\ nexport = 1
    /\ values.ENABLE_COOLANT
    /\ values.SUPPORT_FLOOD_COOLANT
    /\ ~values.SUPPORT_MIST_COOLANT
    /\ values.OUTPUT_COMMENTS
    /\ Len(objectslist) = 1
    /\ objectslist[1].active
    /\ objectslist[1].CoolantMode = "Mist"
    /\ \E k \in 2..Len(gcode) :
          /\ gcode[k].kind = "M8"
          /\ gcode[k - 1] = create_comment(values,
                                << "Coolant On: ", "Mist", " not available, using ", "Flood" >>)

----------------------------------------------------------------------------
(* Properties of the format functions, under SpecFormat *)

(* The precision of the format function called and the fixed-precision     *)
(* string it hands to format_parameter                                     *)
FormatPrecision ==
    CASE fmt_fn = "format_for_axis" -> values.AXIS_PRECISION
      [] fmt_fn = "format_for_feed" -> values.FEED_PRECISION
      [] OTHER -> values.SPINDLE_DECIMALS

FormatInput ==
    FixedStr(fmt_arg.neg, fmt_arg.mag, FormatPrecision, fmt_fn = "format_for_axis")

(* The result with the decimal point back in the place of the comma *)
FormatPointed == Replace(fmt_ret, ",", ".")

IndexOf(s, ch) ==
    IF Contains(s, ch) THEN CHOOSE i \in 1..Len(s) : s[i] = ch /\ \A j \in 1..(i - 1) : s[j] # ch
    ELSE 0

DigitValue(ch) == CHOOSE d \in 0..9 : DigitChars[d + 1] = ch

RECURSIVE NumberOf(_)
NumberOf(s) ==
    IF s = << >> THEN 0
    ELSE 10 * NumberOf(SubSeq(s, 1, Len(s) - 1)) + DigitValue(s[Len(s)])

(* The number a text denotes: its sign and its magnitude in units of       *)
(* 10^-prec                                                                *)
Denotes(s, prec) ==
    LET signed == s # << >> /\ s[1] \in { "+", "-" }
        digits == IF signed THEN SubSeq(s, 2, Len(s)) ELSE s
        pt == IndexOf(digits, ".")
        whole == IF pt = 0 THEN digits ELSE SubSeq(digits, 1, pt - 1)
        frac == IF pt = 0 THEN << >> ELSE SubSeq(digits, pt + 1, Len(digits))
    IN  [ neg |-> signed /\ s[1] = "-",
          mag |-> NumberOf(whole) * Pow10(prec) + NumberOf(frac) * Pow10(prec - Len(frac)) ]

(* C6: with NORMALIZE_PARAMETERS set, the result of a format function is   *)
(* its fixed-precision string without the trailing zeros of the fractional *)
(* part, and without the decimal separator when no fractional digit        *)
(* remains, and nothing else is changed: what is removed is an end of the  *)
(* string after the integer digits, only zeros and the separator; a string *)
(* without a decimal point is kept whole; the sign is kept; and the result *)
(* denotes the same number.                                                *)
C6_NormalizeStripsTrailingZeros ==
    (pc = "format" /\ fmt_fn # "" /\ values.NORMALIZE_PARAMETERS) =>
        LET input == FormatInput
            ret == FormatPointed
            pt == IndexOf(input, ".")
        IN  /\ Len(ret) <= Len(input)
            /\ ret = SubSeq(input, 1, Len(ret))
            /\ \A i \in (Len(ret) + 1)..Len(input) : input[i] \in { "0", "." }
            /\ pt = 0 => ret = input
            /\ pt # 0 => /\ Len(ret) >= pt - 1
                         /\ ret[Len(ret)] # "."
                         /\ Len(ret) > pt => ret[Len(ret)] # "0"
            /\ ret[1] = input[1]
            /\ Denotes(ret, FormatPrecision) = fmt_arg

(* format_for_axis of -1.10 at precision 2 gives "-1,1" *)
C6_Witness ==
    /\ pc = "format"
    /\ values.NORMALIZE_PARAMETERS
    /\ values.DECIMAL_COMMAS
    /\ fmt_fn = "format_for_axis"
    /\ values.AXIS_PRECISION = 2
    /\ fmt_arg = [neg |-> TRUE, mag |-> 110]
    /\ fmt_ret = << "-", "1", ",", "1" >>

(* C7: with DECIMAL_COMMAS set, the result of a format function has no     *)
(* '.' and at most one ',', and the comma stands where the decimal point   *)
(* of the fixed-precision string was.                                      *)
C7_DecimalCommas ==
    (pc = "format" /\ fmt_fn # "" /\ values.DECIMAL_COMMAS) =>
        /\ ~Contains(fmt_ret, ".")
        /\ Cardinality({ i \in 1..Len(fmt_ret) : fmt_ret[i] = "," }) <= 1
        /\ \A i \in 1..Len(fmt_ret) :
              fmt_ret[i] = "," => (i <= Len(FormatInput) /\ FormatInput[i] = ".")
        /\ (~values.NORMALIZE_PARAMETERS /\ Contains(FormatInput, ".")) =>
              Contains(fmt_ret, ",")

(* format_for_feed of 1.05 at precision 2, not normalised, gives "1,05" *)
C7_Witness ==
    /\ pc = "format"
    /\ values.DECIMAL_COMMAS
    /\ ~values.NORMALIZE_PARAMETERS
    /\ fmt_fn = "format_for_feed"
    /\ values.FEED_PRECISION = 2
    /\ fmt_arg = [neg |-> FALSE, mag |-> 105]
    /\ fmt_ret = << "1", ",", "0", "5" >>

----------------------------------------------------------------------------
(* Properties of the program export builds, under Spec *)

(* export has passed its input validation and has run to its end *)
Exported == pc = "done" /\ objectslist # << >> /\ HasPath(objectslist)

Begins == { i \in 1..Len(gcode) : gcode[i].kind = "BEGIN PGM" }

Ends == { i \in 1..Len(gcode) : gcode[i].kind = "END PGM" }

(* The lines generated for an operation, and the stock definition *)
OperationKinds ==
    { "PRE_OPERATION", "POST_OPERATION", "M7", "M8", "M9", "L", "CC", "C", "M1", "M2",
      "M3", "M4", "M5", "M6", "TOOL CALL", "TOOL_CHANGE",
      "BLK FORM 0.1", "BLK FORM 0.2", "BLK FORM CYLINDER" }

OperationComments ==
    { "Block-name: ", "Block-expand: 0", "Block-enable: 1", "Begin operation: ",
      "Begin operation", "Machine units: ", "Machine: ", "Coolant Off", "Coolant On: ",
      "Compound: ", "Begin toolchange", "End toolchange", "Finish operation: ",
      "Finish operation" }

IsOperationLine(line) ==
    \/ line.kind \in OperationKinds
    \/ line.kind = "comment" /\ line.text[1] \in OperationComments

(* C8: an export that passes input validation has exactly one BEGIN PGM    *)
(* line and exactly one END PGM line, BEGIN before END, both with the same *)
(* program name (the job's label, upper-cased when PGM_UPPERCASE) and the  *)
(* same unit, and every line of an operation and of the stock definition   *)
(* lies between the two; while export is in its loop the one BEGIN PGM     *)
(* line is there and no END PGM line.                                      *)
C8_OneProgramFrame ==
    /\ pc \in { "objects", "path" } => Cardinality(Begins) = 1 /\ Ends = { }
    /\ Exported =>
          \E b \in Begins, e \in Ends :
              /\ Begins = { b }
              /\ Ends = { e }
              /\ b < e
              /\ gcode[b].name = gcode[e].name
              /\ gcode[b].unit = gcode[e].unit
              /\ current_job.hasLabel =>
                    gcode[b].name = IF values.PGM_UPPERCASE THEN Upper(current_job.Label)
                                    ELSE current_job.Label
              /\ \A i \in 1..Len(gcode) : IsOperationLine(gcode[i]) => (b < i /\ i < e)

(* An export of heidenhain_post.py for the job "Job" with a stock, a tool  *)
(* controller and an operation, with header and text blocks: the program   *)
(* "JOB" with lines before BEGIN PGM, the stock, a tool call and a motion. *)
C8_Witness ==
    /\ Exported
    /\ values.POSTPROCESSOR_FILE_NAME = Heidenhain
    /\ values.PGM_UPPERCASE
    /\ values.OUTPUT_HEADER
    /\ values.SAFETYBLOCK # << >>
    /\ current_job = BoxJob
    /\ \E i \in 1..Len(gcode) : gcode[i].kind = "BEGIN PGM" /\ gcode[i].name = "JOB"
    /\ \E i \in 1..Len(gcode) : gcode[i].kind = "END PGM" /\ gcode[i].name = "JOB"
    /\ \E i \in 1..Len(gcode) : gcode[i].kind = "BLK FORM 0.1"
    /\ \E i \in 1..Len(gcode) : gcode[i].kind = "TOOL CALL"
    /\ \E i \in 1..Len(gcode) : gcode[i].kind = "L"

(* C9: the first line of the program export produces is the BEGIN PGM line *)
(* and the last line is the END PGM line.                                  *)
C9_FrameIsFirstAndLast ==
    Exported => /\ gcode[1].kind = "BEGIN PGM"
                /\ gcode[Len(gcode)].kind = "END PGM"

----------------------------------------------------------------------------
(* Properties of output_arc, under SpecArc *)

(* A step in which parse_a_path hands a G2 or G3 command to output_arc *)
ArcStep ==
    /\ pc = "path"
    /\ ncmd' = ncmd + 1
    /\ NormalizedName(command'.Name) \in { "G2", "G3" }

HasWordOf(line, p, v) ==
    \E k \in 1..Len(line.words) : line.words[k] = [p |-> p, v |-> v]

(* C11: in absolute mode every G2 or G3 command that carries I or J        *)
(* appends a CC line and then exactly one C line; the C line has DR- for   *)
(* G2, DR+ for G3, and the X and Y words of the end point the command      *)
(* carries, whatever the tracked position is.                              *)
C11_ArcCenterThenPoint ==
    [][ ( /\ ArcStep
          /\ AbsoluteMode
          /\ { "I", "J" } \cap DOMAIN command'.Parameters # { } ) =>
          LET params == command'.Parameters
          IN  /\ Len(NewLines) = 2
              /\ NewLines[1].kind = "CC"
              /\ NewLines[2].kind = "C"
              /\ HasWord(NewLines[2], IF NormalizedName(command'.Name) = "G2"
                                      THEN " DR-" ELSE " DR+")
              /\ \A a \in { "X", "Y" } :
                    a \in DOMAIN params =>
                        HasWordOf(NewLines[2], a,
                                  format_for_axis(values, Quantity(params[a]))) ]_vars

----------------------------------------------------------------------------
(* Properties of output_tool_change, under SpecTool *)

(* A step in which parse_a_path hands an M6 command to output_tool_change *)
ToolStep ==
    /\ pc = "path"
    /\ ncmd' = ncmd + 1
    /\ NormalizedName(command'.Name) = "M6"

ToolChangeKinds == { "TOOL CALL", "M6", "M3", "M4", "TOOL_CHANGE" }

(* The lines C12 lists for the tool controller tc, in their order *)
C12_Lines(tc) ==
    << [num |-> << >>, kind |-> "TOOL CALL", tool |-> tc.ToolNumber, axis |-> "Z",
        S |-> format_for_spindle(values, SpindleQuantity(values, tc.SpindleSpeed))],
       Line("M6") >>
    \o (IF tc.SpindleDir = "Forward" THEN << Line("M3") >>
        ELSE IF tc.SpindleDir = "Reverse" THEN << Line("M4") >> ELSE << >>)
    \o BlockLines("TOOL_CHANGE", values.TOOL_CHANGE)

SpindleStarted ==
    \E i \in 1..Len(gcode) :
        /\ gcode[i].kind \in { "M3", "M4" }
        /\ \A j \in (i + 1)..Len(gcode) : gcode[j].kind # "M5"

(* C17: with OUTPUT_TOOL_CHANGE and STOP_SPINDLE_FOR_TOOL_CHANGE set, a    *)
(* tool change that follows a tool change which started the spindle emits  *)
(* M5 before its TOOL CALL line, and a tool change with the spindle        *)
(* stopped emits no M5.                                                    *)
C17_SpindleStoppedForToolChange ==
    [][ ( /\ ToolStep
          /\ values.OUTPUT_TOOL_CHANGE
          /\ values.STOP_SPINDLE_FOR_TOOL_CHANGE ) =>
          IF SpindleStarted
          THEN \E k \in 1..Len(NewLines) :
                  /\ NewLines[k].kind = "M5"
                  /\ \E m \in (k + 1)..Len(NewLines) : NewLines[m].kind = "TOOL CALL"
          ELSE \A k \in 1..Len(NewLines) : NewLines[k].kind # "M5" ]_vars

----------------------------------------------------------------------------
(* Properties of add_linenumbers, under SpecNumber *)

(* A step in which export leaves its loop and runs to its end *)
ExportEndStep == pc = "objects" /\ pc' = "done"

(* The lines of the finished program that C13 wants numbered *)
C13_Numbered(i) ==
    \/ values.POSTPROCESSOR_FILE_NAME = Refactored
    \/ values.LINE_NUMBER_ON_COMMENTS
    \/ ~StartsWithCommentPrefix(gcode'[i])

(* C13: with OUTPUT_LINE_NUMBERS set, add_linenumbers numbers the lines in *)
(* list order without gaps or repeats: the k-th numbered line (k from 0)   *)
(* gets line_number + k * LINE_INCREMENT and line_number ends at           *)
(* line_number + n * LINE_INCREMENT for n numbered lines; every line is    *)
(* numbered, except that in heidenhain_post.py with LINE_NUMBER_ON_COMMENTS*)
(* unset exactly the lines starting with COMMENT_PREFIX are not; nothing   *)
(* else of a line changes.  With OUTPUT_LINE_NUMBERS unset no line is      *)
(* numbered and line_number is unchanged.                                  *)
C13_LineNumbers ==
    [][ ExportEndStep =>
          LET start == values.line_number
              inc == values.LINE_INCREMENT
              before(i) == Cardinality({ j \in 1..(i - 1) : C13_Numbered(j) })
              n == Cardinality({ j \in 1..Len(gcode') : C13_Numbered(j) })
          IN  /\ Len(gcode') >= Len(gcode)
              /\ \A i \in 1..Len(gcode) : [gcode'[i] EXCEPT !.num = << >>] = gcode[i]
              /\ IF values.OUTPUT_LINE_NUMBERS
                 THEN /\ \A i \in 1..Len(gcode') :
                            gcode'[i].num = IF C13_Numbered(i)
                                            THEN << start + before(i) * inc >>
                                            ELSE << >>
                      /\ values'.line_number = start + n * inc
                 ELSE /\ \A i \in 1..Len(gcode') : gcode'[i].num = << >>
                      /\ values'.line_number = start ]_vars

(* The second export of heidenhain_post.py with increment 10 and comments  *)
(* not numbered: the header comment and the comment-like preamble line     *)
(* have no number, BEGIN PGM has one above the start of the first export,  *)
(* and the next numbered line is 10 higher.                                *)
C13_Witness ==
    /\ pc = "done"
    /\ nexport = 2
    /\ values.POSTPROCESSOR_FILE_NAME = Heidenhain
    /\ values.OUTPUT_LINE_NUMBERS
    /\ ~values.LINE_NUMBER_ON_COMMENTS
    /\ values.OUTPUT_COMMENTS
    /\ values.LINE_INCREMENT = 10
    /\ gcode # << >>
    /\ gcode[1].kind = "comment" /\ gcode[1].num = << >>
    /\ \E i \in 1..(Len(gcode) - 2) :
          /\ gcode[i].kind = "PREAMBLE" /\ gcode[i].text = CommentLikeText
          /\ gcode[i].num = << >>
          /\ gcode[i + 1].kind = "PREAMBLE" /\ gcode[i + 1].num # << >>
          /\ gcode[i + 1].num[1] > 1
          /\ gcode[i + 2].kind = "BEGIN PGM"
          /\ gcode[i + 2].num = << gcode[i + 1].num[1] + 10 >>

----------------------------------------------------------------------------
(* Properties of export's result and of its input validation *)

(* C14: for a non-empty list of path objects export returns the program    *)
(* text it generated, not None.                                            *)
C14_ExportReturnsProgram == Exported => result # "None"

(* A step in which export is called with a list that fails its validation: *)
(* an object without Path, or no object in heidenhain_post.py              *)
InvalidStep ==
    /\ pc \in { "idle", "done" }
    /\ nexport' = nexport + 1
    /\ \/ ~HasPath(objectslist')
       \/ objectslist' = << >> /\ values.POSTPROCESSOR_FILE_NAME = Heidenhain

(* C15: when an object of objectslist has no Path (both scripts), or the   *)
(* list is empty (heidenhain_post.py), export returns its failure value    *)
(* (None, '' in the refactored script) with no line appended, without      *)
(* reaching the end of export, and with values unchanged.                  *)
C15_ValidationFailsCleanly ==
    [][ InvalidStep =>
          /\ result' = IF values.POSTPROCESSOR_FILE_NAME = Heidenhain THEN "None" ELSE "''"
          /\ pc' = "done"
          /\ gcode' = << >>
          /\ values' = values ]_vars

(* The second section of heidenhain_post.py holds an object that is no     *)
(* path, after a first section that numbered its lines: None, no line, and *)
(* line_number as the first export left it.                                *)
C15_Witness ==
    /\ pc = "done"
    /\ nexport = 2
    /\ values.POSTPROCESSOR_FILE_NAME = Heidenhain
    /\ Len(objectslist) = 2
    /\ ~HasPath(objectslist)
    /\ result = "None"
    /\ gcode = << >>
    /\ values.OUTPUT_LINE_NUMBERS
    /\ values.line_number > 1

----------------------------------------------------------------------------
(* Properties of the motion mode *)

(* A step that processes one command of a path object *)
CommandStep == pc = "path" /\ ncmd' = ncmd + 1

HasAxisWord(line) == \E a \in { "X", "Y", "Z" } : HasWord(line, a)

(* C16: MOTION_MODE is the name of the most recently processed G90 or G91  *)
(* command: a G90 or G91 command sets it to its name and no other step of  *)
(* a command, a path object or an export changes it; and while it is G91   *)
(* a G0, G1, G2 or G3 command writes no line with an axis coordinate.      *)
C16_MotionModeTracked ==
    [][ /\ IF CommandStep /\ NormalizedName(command'.Name) \in { "G90", "G91" }
           THEN values'.MOTION_MODE = NormalizedName(command'.Name)
           ELSE values'.MOTION_MODE = values.MOTION_MODE
        /\ ( /\ LineStep \/ ArcStep
             /\ values.MOTION_MODE = "G91" ) =>
               \A k \in 1..Len(NewLines) : ~HasAxisWord(NewLines[k]) ]_vars

----------------------------------------------------------------------------
(* Properties of the radius compensation word *)

HasWords(line) == line.kind \in { "L", "C", "CC" }

(* The L and C lines of gcode *)
PointLines == { i \in 1..Len(gcode) : gcode[i].kind \in { "L", "C" } }

(* C18: the only radius compensation word emitted is R0, never RL or RR,   *)
(* and in the lines of one path object it stands once, on the first L or C *)
(* line the path emitted.                                                  *)
C18_RadiusOnlyOnFirstLine ==
    \A i \in 1..Len(gcode) :
        HasWords(gcode[i]) =>
            /\ \A k \in 1..Len(gcode[i].words) :
                  LET w == gcode[i].words[k]
                  IN  /\ w.p \notin { "RL", "RR" }
                      /\ w.p = "R" => w.v = << "0" >>
            /\ HasWord(gcode[i], "R") <=>
                  (i \in PointLines /\ \A j \in PointLines : i <= j)

(* An arc, then a feed move: the C line holds R0, the L line after it has  *)
(* no radius compensation word.                                            *)
C18_Witness ==
    \E i, j \in PointLines :
        /\ i < j
        /\ gcode[i].kind = "C"
        /\ HasWordOf(gcode[i], "R", << "0" >>)
        /\ gcode[j].kind = "L"
        /\ ~HasWord(gcode[j], "R")

----------------------------------------------------------------------------
(* Properties of fixtures *)

(* The loop of export in heidenhain_post.py passes an active fixture *)
FixtureStep ==
    /\ pc = "objects"
    /\ nobj < Len(objectslist)
    /\ objectslist[nobj + 1].active
    /\ objectslist[nobj + 1].fixture
    /\ values.POSTPROCESSOR_FILE_NAME = Heidenhain

(* C19: for a path object that is a fixture parse_a_path processes none of *)
(* its commands, appends no line and changes no tracked state: the pass of *)
(* export's loop adds the lines export itself writes around the path and   *)
(* nothing else, changes values only by export's coolant update, and       *)
(* leaves the motion mode, the spindle and the command position alone.     *)
C19_FixtureSkipped ==
    [][ FixtureStep =>
          LET o == objectslist[nobj + 1]
              r == output_coolant_update(values, o)
          IN  /\ pc' = "objects"
              /\ nobj' = nobj + 1
              /\ ncmd' = ncmd
              /\ command' = command
              /\ current_parameters' = current_parameters
              /\ values' = r.values
              /\ values'.MOTION_MODE = values.MOTION_MODE
              /\ values'.spindle_state = values.spindle_state
              /\ values'.spindle_dir = values.spindle_dir
              /\ NewLines = output_start_bcnc(values, o) \o output_preop(values, o)
                            \o r.lines
                            \o IF_(r.values.OUTPUT_PATH_LABELS /\ r.values.OUTPUT_COMMENTS,
                                   << create_comment(r.values, << "Compound: ", o.Label >>) >>)
                            \o output_postop(r.values, o)
              /\ \A k \in 1..Len(NewLines) : NewLines[k].kind \notin { "L", "C", "CC" } ]_vars

(* An operation and then a fixture that holds commands were passed: the    *)
(* only L lines are the two of the operation.                              *)
C19_Witness ==
    /\ pc = "objects"
    /\ values.POSTPROCESSOR_FILE_NAME = Heidenhain
    /\ Len(objectslist) = 2
    /\ nobj = 2
    /\ ~objectslist[1].fixture /\ objectslist[1].active /\ ~objectslist[1].tc
    /\ objectslist[2].fixture /\ objectslist[2].active
    /\ PathCommands(objectslist[2]) # << >>
    /\ Cardinality({ i \in 1..Len(gcode) : gcode[i].kind = "L" }) = 2

=============================================================================
